---------------------------- MODULE Spec2Model ----------------------------
(***************************************************************************)
(* The server-list provider (ServerProvider) of the dashboard: the         *)
(* poll-and-reconcile engine that keeps servers / allServers / pagination  *)
(* synchronised with the backend.                                          *)
(*                                                                         *)
(* The provider's React state (useState values and refs) are the           *)
(* variables.  Every handler is an operator from a state record to a state *)
(* record, so that a handler, the state updates it makes and the effect    *)
(* re-runs those updates cause compose into one action.                    *)
(***************************************************************************)
EXTENDS Integers, Sequences, FiniteSets, Bags, TLC

VARIABLES
    auth,              \* auth.isAuthenticated (the session gate)
    servers,           \* useState servers
    allServers,        \* useState allServers
    error,             \* useState error
    refreshKey,        \* useState refreshKey (the generation)
    isInitialLoading,  \* useState isInitialLoading (TRUE = Startup phase)
    fetchAttempts,     \* useState fetchAttempts
    pagination,        \* useState pagination
    currentPage,       \* useState currentPage
    serversPerPage,    \* useState serversPerPage
    intervalRef,       \* intervalRef.current: the armed interval timer, or Null
    timers,            \* the interval timers set and not cleared: the one whose id
                       \* intervalRef holds, and those whose id was overwritten
    attemptsRef,       \* attemptsRef.current
    lastFetchTimeRef,  \* lastFetchTimeRef.current
    hasCleanup,        \* whether the polling effect's last run returned its cleanup
    inflight,          \* bag of issued, unsettled reconciliations
    pending,           \* bag of resource operations called and not yet settled
    sessionStorage,    \* window.sessionStorage['servers.serversPerPage']
    localStorage,      \* window.localStorage['activity.itemsPerPage']
    itemsPerPage,      \* useState itemsPerPage of the activity page: <<n>> while
                       \* the page is mounted, <<>> while it is not
    now,               \* Date.now()
    lastRefreshCall,   \* history: time of the last refreshIfNeeded() call that issued
    ev                 \* history: what the last step did

vars == <<auth, servers, allServers, error, refreshKey, isInitialLoading,
          fetchAttempts, pagination, currentPage, serversPerPage, intervalRef,
          timers, attemptsRef, lastFetchTimeRef, hasCleanup, inflight, pending,
          sessionStorage, localStorage, itemsPerPage, now, lastRefreshCall, ev>>

-----------------------------------------------------------------------------
(* Program constants *)

maxAttempts == 60

startupPollingInterval == 3000

normalPollingInterval == 10000

\* the production value (5000 when NODE_ENV is 'development')
MIN_REFRESH_INTERVAL == 3000

DefaultServersPerPage == 5

\* the fallback of the activity page's page size
DefaultItemsPerPage == 10

(* Bounds of the model *)

\* refreshKey never exceeds MaxKey: the handlers that bump it are disabled there
MaxKey == 3

\* at most MaxInFlight reconciliations are unsettled at once
MaxInFlight == 2

\* Date.now() when the provider mounts (any value >= MIN_REFRESH_INTERVAL)
StartTime == 5000

\* the pages and the page sizes the controls ask for
Pages == {1, 2}

Limits == {DefaultServersPerPage, 10}

\* the numbers NaN and Infinity, which are not finite; they stand apart from the
\* integers the model computes with
NaN == -1000

Infinity == 1000

\* every number a caller may pass as a page size: the sizes of the control,
\* zero, a negative size, and the numbers that are not finite
LimitInputs == Limits \cup {0, -5, NaN, Infinity}

\* resource operations that may be unsettled at once
MaxPending == 1

\* null, for the values that are objects when present (pagination, intervalRef)
Null == [null |-> TRUE]

\* null, for the error message
NoError == "null"

-----------------------------------------------------------------------------
(* Backend responses *)

R1 == <<"r1">>

R2 == <<"r1", "r2">>

P1 == [page |-> 1, limit |-> 5, total |-> 1, totalPages |-> 1,
       hasNextPage |-> FALSE, hasPrevPage |-> FALSE]

\* a resolved body: an envelope {success, data, pagination?}, a bare array, or
\* null.  dataIsArray is Array.isArray(body.data); data is <<>> when it is not.
Envelope(ok, isArr, d, p) ==
    [shape |-> "envelope", success |-> ok, dataIsArray |-> isArr, data |-> d,
     pagination |-> p]

BareArray(d) ==
    [shape |-> "array", success |-> FALSE, dataIsArray |-> FALSE, data |-> d,
     pagination |-> Null]

NullBody ==
    [shape |-> "null", success |-> FALSE, dataIsArray |-> FALSE, data |-> <<>>,
     pagination |-> Null]

\* the well-formed bodies of the two requests
WellFormedPag == {Envelope(TRUE, TRUE, R1, P1)}

WellFormedAll == {Envelope(TRUE, TRUE, R2, Null)}

\* the resolved bodies that are neither a success envelope with array data nor
\* a bare array: success = false, non-array data, a null body
Malformed ==
    {Envelope(FALSE, TRUE, R1, P1), Envelope(TRUE, FALSE, <<>>, P1), NullBody}

\* every shape a request may resolve with
PagResponses ==
    WellFormedPag \cup {Envelope(TRUE, TRUE, R2, Null), BareArray(R2)} \cup Malformed

AllResponses == WellFormedAll \cup {BareArray(R1), NullBody}

\* Math.ceil(total / limit) for limit > 0
Ceil(total, limit) == (total + limit - 1) \div limit

\* the backend's pagination with hasNextPage true on the last page
Paginate_NextOnLastPage(page, limit, total) ==
    [page |-> page, limit |-> limit, total |-> total,
     totalPages |-> Ceil(total, limit),
     hasNextPage |-> page <= Ceil(total, limit), hasPrevPage |-> page > 1]

\* the PaginationInfo the backend builds for a page of limit out of total
\* resources
Paginate(page, limit, total) ==
    [page |-> page, limit |-> limit, total |-> total,
     totalPages |-> Ceil(total, limit),
     hasNextPage |-> page < Ceil(total, limit), hasPrevPage |-> page > 1]

\* how many resources the backend may hold
Totals == {0, 6, 11}

\* the paginated bodies of a backend that holds some number of resources
PaginatedBodies ==
    {Envelope(TRUE, TRUE, R1, Paginate(p, l, t)) :
        p \in Pages, l \in Limits, t \in Totals}

\* the paginated bodies and the bodies without pagination
ListBodies == PaginatedBodies \cup {Envelope(TRUE, TRUE, R2, Null), BareArray(R2)}

\* what the request of a resource operation does: it resolves with a body
\* {success, data?, message?}, resolves with null, or throws an Error
\* a JavaScript array with the given items
Array(items) == [items |-> items]

\* the data of GET /servers/:name: tools is an Array, or Null when the field is
\* absent; the body carries more than the four fields the provider hands on
ServerData(tools) ==
    [name |-> "r1", status |-> "connected", tools |-> tools,
     config |-> "config1", createTime |-> 1]

Response(ok, hasData, msg) ==
    [kind |-> "body", success |-> ok, hasData |-> hasData, message |-> msg,
     data |-> IF hasData THEN ServerData(Array(<<"tool1">>)) ELSE Null]

\* a success body whose data is d
DataResponse(d) ==
    [kind |-> "body", success |-> TRUE, hasData |-> TRUE, message |-> "",
     data |-> d]

NullResponse ==
    [kind |-> "null", success |-> FALSE, hasData |-> FALSE, message |-> "",
     data |-> Null]

ThrewError(msg) ==
    [kind |-> "threw", success |-> FALSE, hasData |-> FALSE, message |-> msg,
     data |-> Null]

ApiResults ==
    {Response(TRUE, TRUE, ""), Response(TRUE, FALSE, ""),
     Response(FALSE, FALSE, ""), Response(FALSE, FALSE, "refused"),
     NullResponse, ThrewError("timeout")}

\* the ways the request of a resource operation fails
FailedResults == {r \in ApiResults : r.kind # "body" \/ ~r.success}

\* the ways the request of a resource operation succeeds
SucceededResults == ApiResults \ FailedResults

\* what GET /servers/:name may do: as ApiResults, and success with data whose
\* tools are absent or empty
EditResults ==
    ApiResults \cup {DataResponse(ServerData(Null)),
                     DataResponse(ServerData(Array(<<>>)))}

\* the resource operations of the provider
Operations ==
    {"handleServerEdit", "handleServerRemove", "handleServerToggle",
     "handleServerReload"}

\* sessionStorage.getItem(key) of a key that was never set
NoItem == <<>>

\* a request that threw, and no request at all
Threw == [shape |-> "threw"]

NoBody == [shape |-> "none"]

\* Array.isArray(body.data)
IsArrayData(r) == r.dataIsArray

\* paginatedData && paginatedData.success && Array.isArray(paginatedData.data)
IsSuccessEnvelope(r) == r.shape = "envelope" /\ r.success /\ IsArrayData(r)

\* paginatedData && Array.isArray(paginatedData)
IsBareArray(r) == r.shape = "array"

\* NormalizeServers without the compatibility branch for a bare array
NormalizeServers_EnvelopeOnly(r) ==
    IF IsSuccessEnvelope(r) THEN r.data ELSE <<>>

\* the servers / pagination written for a resolved paginated body
NormalizeServers(r) ==
    IF IsSuccessEnvelope(r) \/ IsBareArray(r) THEN r.data ELSE <<>>

NormalizePagination(r) ==
    IF IsSuccessEnvelope(r) THEN r.pagination ELSE Null

\* the allServers written for a resolved full-list body
NormalizeAll(r) ==
    IF IsSuccessEnvelope(r) \/ IsBareArray(r) THEN r.data ELSE <<>>

-----------------------------------------------------------------------------
(* The state as a record, so that handlers compose *)

Cur == [auth |-> auth, servers |-> servers, allServers |-> allServers,
        error |-> error, refreshKey |-> refreshKey,
        isInitialLoading |-> isInitialLoading, fetchAttempts |-> fetchAttempts,
        pagination |-> pagination, currentPage |-> currentPage,
        serversPerPage |-> serversPerPage, intervalRef |-> intervalRef,
        timers |-> timers,
        attemptsRef |-> attemptsRef, lastFetchTimeRef |-> lastFetchTimeRef,
        hasCleanup |-> hasCleanup, inflight |-> inflight, pending |-> pending,
        sessionStorage |-> sessionStorage, now |-> now,
        lastRefreshCall |-> lastRefreshCall, ev |-> ev]

\* the provider's variables take the values of the record r
Assign(r) ==
        /\ auth' = r.auth
        /\ servers' = r.servers
        /\ allServers' = r.allServers
        /\ error' = r.error
        /\ refreshKey' = r.refreshKey
        /\ isInitialLoading' = r.isInitialLoading
        /\ fetchAttempts' = r.fetchAttempts
        /\ pagination' = r.pagination
        /\ currentPage' = r.currentPage
        /\ serversPerPage' = r.serversPerPage
        /\ intervalRef' = r.intervalRef
        /\ timers' = r.timers
        /\ attemptsRef' = r.attemptsRef
        /\ lastFetchTimeRef' = r.lastFetchTimeRef
        /\ hasCleanup' = r.hasCleanup
        /\ inflight' = r.inflight
        /\ pending' = r.pending
        /\ sessionStorage' = r.sessionStorage
        /\ now' = r.now
        /\ lastRefreshCall' = r.lastRefreshCall
        /\ ev' = r.ev

\* the record s becomes the next state (r is s, computed once); a step of the
\* provider leaves the activity page alone
Commit(s) ==
    \E r \in {s} : Assign(r) /\ UNCHANGED <<localStorage, itemsPerPage>>

Start(s) ==
    /\ auth = s.auth
    /\ servers = s.servers
    /\ allServers = s.allServers
    /\ error = s.error
    /\ refreshKey = s.refreshKey
    /\ isInitialLoading = s.isInitialLoading
    /\ fetchAttempts = s.fetchAttempts
    /\ pagination = s.pagination
    /\ currentPage = s.currentPage
    /\ serversPerPage = s.serversPerPage
    /\ intervalRef = s.intervalRef
    /\ timers = s.timers
    /\ attemptsRef = s.attemptsRef
    /\ lastFetchTimeRef = s.lastFetchTimeRef
    /\ hasCleanup = s.hasCleanup
    /\ inflight = s.inflight
    /\ pending = s.pending
    /\ sessionStorage = s.sessionStorage
    /\ now = s.now
    /\ lastRefreshCall = s.lastRefreshCall
    /\ ev = s.ev

\* the history record of a step: the operation, the reconciliations it issued,
\* whether it settled a reconciliation of an older generation, whether it ran
\* the max-attempts branch; for a reconciliation that settled, what its two
\* requests did (a body, or Threw) and, when one threw, navigator.onLine and
\* whether the error was a TypeError with a network message; for a resource
\* operation that settled, what its request did and what the operation
\* returned; for a page or page-size change,
\* the number it was called with
Event(op) ==
    [op |-> op, issued |-> 0, stale |-> FALSE, forced |-> FALSE,
     pag |-> NoBody, all |-> NoBody, onLine |-> TRUE, networkTypeError |-> FALSE,
     arg |-> 0, response |-> NoBody, result |-> "none", detail |-> Null,
     request |-> Null]

Begin(s, op) == [s EXCEPT !.ev = Event(op)]

\* a reconciliation: the two apiGet calls of fetchInitialData / fetchServers,
\* with the page and limit of the closure that issued it and the generation
\* (refreshKey) at the time of the call
Fetch(fn, s, page, limit) ==
    [fn |-> fn, gen |-> s.refreshKey, page |-> page, limit |-> limit]

Issue(s, fn, page, limit) ==
    [s EXCEPT !.inflight = @ (+) SetToBag({Fetch(fn, s, page, limit)}),
              !.ev.issued = @ + 1]

Timer(fn, interval, page, limit) ==
    [fn |-> fn, interval |-> interval, page |-> page, limit |-> limit]

-----------------------------------------------------------------------------
(* The provider's functions *)

\* no interval timer runs
NoTimers == [held |-> EmptyBag, lost |-> EmptyBag]

\* clearTimer(): clearInterval of the timer whose id intervalRef holds, if there
\* is one, and intervalRef.current = null
clearTimer(s) == [s EXCEPT !.timers.held = EmptyBag, !.intervalRef = Null]

\* intervalRef.current = setInterval(...): a new timer runs and the ref holds its
\* id; a timer whose id the ref held until now keeps running
setInterval(s, timer) ==
    [s EXCEPT !.timers = [held |-> SetToBag({timer}), lost |-> @.lost (+) @.held],
              !.intervalRef = timer]

\* startNormalPolling without its clearTimer
startNormalPolling_NoClear(s, immediate, page, limit) ==
    LET s2 == IF immediate THEN Issue(s, "fetchServers", page, limit) ELSE s
    IN  setInterval(s2, Timer("fetchServers", normalPollingInterval, page, limit))

\* startNormalPolling without its setInterval
startNormalPolling_NoInterval(s, immediate, page, limit) ==
    LET s1 == clearTimer(s)
    IN  IF immediate THEN Issue(s1, "fetchServers", page, limit) ELSE s1

\* startNormalPolling(options), of the render whose page and limit it closed over
startNormalPolling(s, immediate, page, limit) ==
    LET s1 == clearTimer(s)
        s2 == IF immediate THEN Issue(s1, "fetchServers", page, limit) ELSE s1
    IN  setInterval(s2, Timer("fetchServers", normalPollingInterval, page, limit))

\* the effect on [auth.isAuthenticated]
authEffect(s) ==
    IF s.auth
    THEN [s EXCEPT !.refreshKey = @ + 1]
    ELSE [clearTimer(s) EXCEPT !.servers = <<>>, !.allServers = <<>>,
                               !.isInitialLoading = FALSE, !.error = NoError]

\* the polling effect without its attempt reset
pollingEffect_NoAttemptReset(s) ==
    IF ~s.auth
    THEN [s EXCEPT !.hasCleanup = FALSE]
    ELSE LET s2 == IF s.isInitialLoading
                   THEN setInterval(Issue(clearTimer(s), "fetchInitialData",
                                          s.currentPage, s.serversPerPage),
                         Timer("fetchInitialData", startupPollingInterval,
                               s.currentPage, s.serversPerPage))
                   ELSE startNormalPolling(s, TRUE, s.currentPage, s.serversPerPage)
         IN  [s2 EXCEPT !.hasCleanup = TRUE]

\* the polling effect without its early return while the gate is off
pollingEffect_NoGate(s) ==
    LET s1 == IF s.refreshKey > 0
              THEN [s EXCEPT !.attemptsRef = 0, !.fetchAttempts = 0]
              ELSE s
        s2 == IF s1.isInitialLoading
              THEN setInterval(Issue(clearTimer(s1), "fetchInitialData",
                                     s1.currentPage, s1.serversPerPage),
                    Timer("fetchInitialData", startupPollingInterval,
                          s1.currentPage, s1.serversPerPage))
              ELSE startNormalPolling(s1, TRUE, s1.currentPage, s1.serversPerPage)
    IN  [s2 EXCEPT !.hasCleanup = TRUE]

\* pollingEffect arming the Startup timer with the Normal interval
pollingEffect_NormalInterval(s) ==
    IF ~s.auth
    THEN [s EXCEPT !.hasCleanup = FALSE]
    ELSE LET s1 == IF s.refreshKey > 0
                   THEN [s EXCEPT !.attemptsRef = 0, !.fetchAttempts = 0]
                   ELSE s
             s2 == IF s1.isInitialLoading
                   THEN setInterval(Issue(clearTimer(s1), "fetchInitialData",
                                          s1.currentPage, s1.serversPerPage),
                         Timer("fetchInitialData", normalPollingInterval,
                               s1.currentPage, s1.serversPerPage))
                   ELSE startNormalPolling(s1, TRUE, s1.currentPage, s1.serversPerPage)
         IN  [s2 EXCEPT !.hasCleanup = TRUE]

\* the body of the polling effect
pollingEffect(s) ==
    IF ~s.auth
    THEN [s EXCEPT !.hasCleanup = FALSE]
    ELSE LET s1 == IF s.refreshKey > 0
                   THEN [s EXCEPT !.attemptsRef = 0, !.fetchAttempts = 0]
                   ELSE s
             s2 == IF s1.isInitialLoading
                   THEN setInterval(Issue(clearTimer(s1), "fetchInitialData",
                                          s1.currentPage, s1.serversPerPage),
                         Timer("fetchInitialData", startupPollingInterval,
                               s1.currentPage, s1.serversPerPage))
                   ELSE startNormalPolling(s1, TRUE, s1.currentPage, s1.serversPerPage)
         IN  [s2 EXCEPT !.hasCleanup = TRUE]

\* EffectDeps without the dependency on startNormalPolling
EffectDeps_KeyAndPhase(s) == <<s.refreshKey, s.isInitialLoading>>

\* the polling effect's dependencies (t never changes; startNormalPolling changes
\* with currentPage and serversPerPage)
EffectDeps(s) == <<s.refreshKey, s.isInitialLoading, s.currentPage, s.serversPerPage>>

\* a re-run of the polling effect: the cleanup its last run returned, then its body
RerunPollingEffect(s) ==
    pollingEffect(IF s.hasCleanup THEN clearTimer(s) ELSE s)

\* the render that follows a handler's state updates: the polling effect re-runs
\* when one of its dependencies changed
Render(old, new) ==
    IF EffectDeps(old) # EffectDeps(new) THEN RerunPollingEffect(new) ELSE new

\* fetchInitialDataResolved without setIsInitialLoading(false)
fetchInitialDataResolved_KeepLoading(s, f, rp, ra) ==
    LET s1 == [s EXCEPT !.lastFetchTimeRef = s.now,
                        !.servers = NormalizeServers(rp),
                        !.pagination = NormalizePagination(rp),
                        !.allServers = NormalizeAll(ra)]
    IN  startNormalPolling(s1, FALSE, f.page, f.limit)

\* fetchInitialData, from the await on: both requests resolved
fetchInitialDataResolved(s, f, rp, ra) ==
    LET s1 == [s EXCEPT !.lastFetchTimeRef = s.now,
                        !.servers = NormalizeServers(rp),
                        !.pagination = NormalizePagination(rp),
                        !.allServers = NormalizeAll(ra),
                        !.isInitialLoading = FALSE]
    IN  startNormalPolling(s1, FALSE, f.page, f.limit)

\* the catch of fetchInitialData comparing with > instead of >=
fetchInitialDataRejected_StrictMax(s, f, onLine) ==
    LET n  == s.attemptsRef + 1
        s1 == [s EXCEPT !.attemptsRef = n,
                        !.fetchAttempts = n,
                        !.error = IF ~onLine THEN "errors.network"
                                  ELSE "errors.initialStartup"]
    IN  IF n > maxAttempts
        THEN startNormalPolling(
                 clearTimer([s1 EXCEPT !.isInitialLoading = FALSE,
                                       !.ev.forced = TRUE]),
                 TRUE, f.page, f.limit)
        ELSE s1

\* fetchInitialData, from the await on: a request threw
fetchInitialDataRejected(s, f, onLine) ==
    LET n  == s.attemptsRef + 1
        s1 == [s EXCEPT !.attemptsRef = n,
                        !.fetchAttempts = n,
                        !.error = IF ~onLine THEN "errors.network"
                                  ELSE "errors.initialStartup"]
    IN  IF n >= maxAttempts
        THEN startNormalPolling(
                 clearTimer([s1 EXCEPT !.isInitialLoading = FALSE,
                                       !.ev.forced = TRUE]),
                 TRUE, f.page, f.limit)
        ELSE s1

\* fetchServersResolved writing the page it asked for over the page it got
fetchServersResolved_RequestedPage(s, f, rp, ra) ==
    [s EXCEPT !.lastFetchTimeRef = s.now,
              !.servers = NormalizeServers(rp),
              !.pagination = IF NormalizePagination(rp) = Null THEN Null
                             ELSE [NormalizePagination(rp) EXCEPT !.page = f.page],
              !.allServers = NormalizeAll(ra),
              !.error = NoError]

\* fetchServers, from the await on: both requests resolved
fetchServersResolved(s, f, rp, ra) ==
    [s EXCEPT !.lastFetchTimeRef = s.now,
              !.servers = NormalizeServers(rp),
              !.pagination = NormalizePagination(rp),
              !.allServers = NormalizeAll(ra),
              !.error = NoError]

\* fetchServersRejected that also empties the sink
fetchServersRejected_EmptiesSink(s, f, onLine, networkTypeError) ==
    [s EXCEPT !.error = IF ~onLine THEN "errors.network"
                        ELSE IF networkTypeError THEN "errors.serverConnection"
                        ELSE "errors.serverFetch",
              !.servers = <<>>, !.allServers = <<>>, !.pagination = Null]

\* fetchServersRejected that also stops the polling
fetchServersRejected_StopPolling(s, f, onLine, networkTypeError) ==
    [clearTimer(s) EXCEPT !.error = IF ~onLine THEN "errors.network"
                                   ELSE IF networkTypeError THEN "errors.serverConnection"
                                   ELSE "errors.serverFetch"]

\* fetchServers, from the await on: a request threw; networkTypeError is
\* err instanceof TypeError with a 'NetworkError' / 'Failed to fetch' message
fetchServersRejected(s, f, onLine, networkTypeError) ==
    [s EXCEPT !.error = IF ~onLine THEN "errors.network"
                        ELSE IF networkTypeError THEN "errors.serverConnection"
                        ELSE "errors.serverFetch"]

\* triggerRefresh raising refreshKey only in Startup phase
triggerRefresh_BumpInStartup(s) ==
    LET s1 == clearTimer(s)
    IN  IF s1.isInitialLoading
        THEN [s1 EXCEPT !.isInitialLoading = TRUE,
                        !.attemptsRef = 0, !.fetchAttempts = 0,
                        !.refreshKey = @ + 1]
        ELSE s1

\* triggerRefresh, of the current render
triggerRefresh(s) ==
    LET s1 == clearTimer(s)
        s2 == IF s1.isInitialLoading
              THEN [s1 EXCEPT !.isInitialLoading = TRUE,
                              !.attemptsRef = 0, !.fetchAttempts = 0]
              ELSE s1
    IN  [s2 EXCEPT !.refreshKey = @ + 1]

\* refreshIfNeeded that also skips a call made less than MIN_REFRESH_INTERVAL
\* after a call that refreshed
refreshIfNeeded_SinceLastCall(s) ==
    LET timeSinceLastFetch == s.now - s.lastFetchTimeRef
        timeSinceLastCall == s.now - s.lastRefreshCall
    IN  IF /\ timeSinceLastFetch >= MIN_REFRESH_INTERVAL
           /\ (s.lastRefreshCall < 0 \/ timeSinceLastCall >= MIN_REFRESH_INTERVAL)
        THEN triggerRefresh(s) ELSE s

\* refreshIfNeeded, of the current render
refreshIfNeeded(s) ==
    LET timeSinceLastFetch == s.now - s.lastFetchTimeRef
    IN  IF timeSinceLastFetch >= MIN_REFRESH_INTERVAL THEN triggerRefresh(s) ELSE s

handleServerAdd(s) == [s EXCEPT !.refreshKey = @ + 1]

\* the triggerRefresh a handler captured in the render where isInitialLoading
\* was loading
triggerRefreshOf(s, loading) ==
    LET s1 == clearTimer(s)
        s2 == IF loading
              THEN [s1 EXCEPT !.isInitialLoading = TRUE,
                              !.attemptsRef = 0, !.fetchAttempts = 0]
              ELSE s1
    IN  [s2 EXCEPT !.refreshKey = @ + 1]

\* a resource operation returns v to its caller
Return(s, v) == [s EXCEPT !.ev.result = v]

\* result?.message || fallback
MessageOr(r, fallback) == IF r.message # "" THEN r.message ELSE fallback

\* a resource operation returns the server detail d to its caller
ReturnDetail(s, d) == [s EXCEPT !.ev.result = "detail", !.ev.detail = d]

\* tools || []
ToolsOr(tools) == IF tools = Null THEN Array(<<>>) ELSE tools

\* handleServerEdit handing on data.tools as it came
handleServerEdit_ToolsAsSent(s, c, r) ==
    IF r.kind = "threw" THEN Return([s EXCEPT !.error = r.message], "null")
    ELSE IF r.kind = "body" /\ r.success /\ r.hasData
    THEN ReturnDetail(s, [name |-> r.data.name, status |-> r.data.status,
                          tools |-> r.data.tools, config |-> r.data.config])
    ELSE Return([s EXCEPT !.error = "server.invalidConfig"], "null")

\* handleServerEdit, from the await on
handleServerEdit(s, c, r) ==
    IF r.kind = "threw" THEN Return([s EXCEPT !.error = r.message], "null")
    ELSE IF r.kind = "body" /\ r.success /\ r.hasData
    THEN ReturnDetail(s, [name |-> r.data.name, status |-> r.data.status,
                          tools |-> ToolsOr(r.data.tools),
                          config |-> r.data.config])
    ELSE Return([s EXCEPT !.error = "server.invalidConfig"], "null")

\* handleServerRemove without the setRefreshKey of its success branch
handleServerRemove_NoRefresh(s, c, r) ==
    IF r.kind = "threw"
    THEN Return([s EXCEPT !.error = "errors.general" \o ": " \o r.message], "false")
    ELSE IF r.kind = "null" \/ ~r.success
    THEN Return([s EXCEPT !.error = MessageOr(r, "server.deleteError")], "false")
    ELSE Return(s, "true")

\* handleServerRemove, from the await on
handleServerRemove(s, c, r) ==
    IF r.kind = "threw"
    THEN Return([s EXCEPT !.error = "errors.general" \o ": " \o r.message], "false")
    ELSE IF r.kind = "null" \/ ~r.success
    THEN Return([s EXCEPT !.error = MessageOr(r, "server.deleteError")], "false")
    ELSE Return([s EXCEPT !.refreshKey = @ + 1], "true")

\* handleServerToggle without the state update of its failure branches
handleServerToggle_SilentFailure(s, c, r) ==
    IF r.kind = "threw" THEN Return(s, "false")
    ELSE IF r.kind = "null" \/ ~r.success THEN Return(s, "false")
    ELSE Return([s EXCEPT !.refreshKey = @ + 1], "true")

\* handleServerToggle, from the await on
handleServerToggle(s, c, r) ==
    IF r.kind = "threw" THEN Return([s EXCEPT !.error = r.message], "false")
    ELSE IF r.kind = "null" \/ ~r.success
    THEN Return([s EXCEPT !.error = MessageOr(r, "server.toggleError")], "false")
    ELSE Return([s EXCEPT !.refreshKey = @ + 1], "true")

\* handleServerReload, from the await on; triggerRefresh is the one of the
\* render in which the operation was called
handleServerReload(s, c, r) ==
    IF r.kind = "threw" THEN Return([s EXCEPT !.error = r.message], "false")
    ELSE IF r.kind = "null" \/ ~r.success
    THEN Return([s EXCEPT !.error = "server.reloadError"], "false")
    ELSE Return(triggerRefreshOf(s, c.isInitialLoading), "true")

\* Number.isFinite(value)
IsFinite(value) == value \notin {NaN, Infinity}

\* String(value)
String(value) ==
    IF value = NaN THEN "NaN"
    ELSE IF value = Infinity THEN "Infinity"
    ELSE ToString(value)

\* the options of the activity page's page-size select
ItemsPerPageOptions == {10, 20, 50, 100}

\* the finite numbers whose numerals may be in the store
Numerals == {n \in LimitInputs \cup ItemsPerPageOptions : IsFinite(n)}

\* Number(stored): the number a numeral denotes (text of white space denotes 0,
\* an exponent is read), NaN for any other text
Number(stored) ==
    IF stored = "Infinity" THEN Infinity
    ELSE IF stored = " " THEN 0
    ELSE IF stored = "1e1" THEN 10
    ELSE IF \E n \in Numerals : ToString(n) = stored
         THEN CHOOSE n \in Numerals : ToString(n) = stored
         ELSE NaN

\* getSessionNumber returning every finite number that was parsed
getSessionNumber_NoPositiveCheck(store, fallback) ==
    IF store = NoItem \/ store[1] = ""
    THEN fallback
    ELSE LET parsed == Number(store[1])
         IN  IF IsFinite(parsed) THEN parsed ELSE fallback

\* getSessionNumber('servers.serversPerPage', fallback) over the store
getSessionNumber(store, fallback) ==
    IF store = NoItem \/ store[1] = ""
    THEN fallback
    ELSE LET parsed == Number(store[1])
         IN  IF IsFinite(parsed) /\ parsed > 0 THEN parsed ELSE fallback

\* setSessionNumber storing String(value) whatever the value
setSessionNumber_NoFiniteCheck(s, value) ==
    [s EXCEPT !.sessionStorage = <<String(value)>>]

\* setSessionNumber('servers.serversPerPage', value): String(value) is stored
setSessionNumber(s, value) ==
    IF IsFinite(value) THEN [s EXCEPT !.sessionStorage = <<String(value)>>] ELSE s

\* getLocalNumber('activity.itemsPerPage', fallback) over the store
getLocalNumber(store, fallback) ==
    IF store = NoItem \/ store[1] = ""
    THEN fallback
    ELSE LET parsed == Number(store[1])
         IN  IF IsFinite(parsed) /\ parsed > 0 THEN parsed ELSE fallback

\* setLocalNumber('activity.itemsPerPage', value): the store after the call
setLocalNumber(store, value) ==
    IF IsFinite(value) THEN <<String(value)>> ELSE store

\* what a store may hold under a key when the page is loaded: nothing, the
\* empty text, white space, text that is no number, and the numerals of zero,
\* of a negative, of an infinite and of positive numbers
StoredContents ==
    {NoItem, <<"">>, <<" ">>, <<"abc">>, <<"NaN">>, <<"0">>, <<"-5">>,
     <<"Infinity">>, <<"5">>, <<"10">>, <<"1e1">>}

\* the fallbacks a reader may be called with: those of the two callers, and a
\* zero and a NaN
Fallbacks == {DefaultServersPerPage, DefaultItemsPerPage, 0, NaN}

handlePageChange(s, page) == [s EXCEPT !.currentPage = page]

handleServersPerPageChange(s, limit) ==
    [setSessionNumber(s, limit) EXCEPT !.serversPerPage = limit, !.currentPage = 1]

-----------------------------------------------------------------------------
(* The state after construction *)

\* the useState / useRef initial values of the first render
FirstRender(a) ==
    [auth |-> a, servers |-> <<>>, allServers |-> <<>>, error |-> NoError,
     refreshKey |-> 0, isInitialLoading |-> TRUE, fetchAttempts |-> 0,
     pagination |-> Null, currentPage |-> 1,
     serversPerPage |-> getSessionNumber(NoItem, DefaultServersPerPage),
     intervalRef |-> Null, timers |-> NoTimers,
     attemptsRef |-> 0, lastFetchTimeRef |-> 0, hasCleanup |-> FALSE,
     inflight |-> EmptyBag, pending |-> EmptyBag, sessionStorage |-> NoItem,
     now |-> StartTime,
     lastRefreshCall |-> -1, ev |-> Event("mount")]

\* the mount: both effects run against the first render's values (the state
\* updates of the auth effect are only queued while the polling effect runs),
\* then the queued updates are rendered
Mount(a) ==
    LET p == pollingEffect(FirstRender(a))
    IN  Render(p, authEffect(p))

\* the first render of a provider that mounts again in the same tab, at time t:
\* the store is as the last mount left it
FirstRenderAgain(a, store, t) ==
    [FirstRender(a) EXCEPT !.sessionStorage = store,
                           !.serversPerPage =
                               getSessionNumber(store, DefaultServersPerPage),
                           !.now = t,
                           !.ev = Event("remount")]

\* the activity page is not mounted, and the local store holds store
ActivityPageAbsent(store) ==
    /\ localStorage = store
    /\ itemsPerPage = <<>>

\* the provider may mount with the session gate on or off
Init == \E a \in BOOLEAN : Start(Mount(a)) /\ ActivityPageAbsent(NoItem)

\* the mount in a tab whose session store already holds store
MountOver(a, store) ==
    LET f == [FirstRender(a) EXCEPT
                  !.sessionStorage = store,
                  !.serversPerPage =
                      getSessionNumber(store, DefaultServersPerPage)]
        p == pollingEffect(f)
    IN  Render(p, authEffect(p))

\* the page is loaded with anything in the two stores
InitReaders ==
    \E a \in BOOLEAN, ss \in StoredContents, ls \in StoredContents :
        Start(MountOver(a, ss)) /\ ActivityPageAbsent(ls)

-----------------------------------------------------------------------------
(* The steps *)

InFlightOk(s) == BagCardinality(s.inflight) <= MaxInFlight

Step(s0, s1) == \E r \in {s1} : InFlightOk(r) /\ Commit(r)

\* auth.isAuthenticated turns true: the auth effect, then the render of its update
GateOn ==
    /\ ~auth
    /\ refreshKey < MaxKey
    /\ LET s0 == Begin([Cur EXCEPT !.auth = TRUE], "gateOn")
       IN  Step(s0, Render(s0, authEffect(s0)))

\* auth.isAuthenticated turns false
GateOff ==
    /\ auth
    /\ LET s0 == Begin([Cur EXCEPT !.auth = FALSE], "gateOff")
       IN  Step(s0, Render(s0, authEffect(s0)))

\* an interval timer that was set and not cleared fires its callback
Tick ==
    \E timer \in BagToSet(timers.held (+) timers.lost) :
        LET s0 == Begin(Cur, "tick")
        IN  Step(s0, Issue(s0, timer.fn, timer.page, timer.limit))

\* the state in which the reconciliation f settles
Settling(f, op) ==
    [Begin(Cur, op) EXCEPT !.inflight = @ (-) SetToBag({f}),
                           !.ev.stale = (f.gen # refreshKey),
                           !.ev.request = [page |-> f.page, limit |-> f.limit]]

\* what the two requests of the settling reconciliation did
Outcome(s, rp, ra) == [s EXCEPT !.ev.pag = rp, !.ev.all = ra]

\* how the request that threw failed
Failure(s, onLine, nte) ==
    [s EXCEPT !.ev.onLine = onLine, !.ev.networkTypeError = nte]

InFlight(fn) == {f \in BagToSet(inflight) : f.fn = fn}

\* a fetchInitialData in flight settles: both requests resolved with rp and ra
InitialResolves(PR, AR) ==
    \E f \in InFlight("fetchInitialData"), rp \in PR, ra \in AR :
        LET s0 == Outcome(Settling(f, "initialResolved"), rp, ra)
        IN  Step(s0, Render(s0, fetchInitialDataResolved(s0, f, rp, ra)))

\* a fetchInitialData in flight settles: Promise.all rejected, both requests
\* having thrown
InitialRejects(OL, NTE) ==
    \E f \in InFlight("fetchInitialData"), onLine \in OL, nte \in NTE :
        LET s0 == Failure(Outcome(Settling(f, "initialRejected"), Threw, Threw),
                          onLine, nte)
        IN  Step(s0, Render(s0, fetchInitialDataRejected(s0, f, onLine)))

\* a fetchServers in flight settles: both requests resolved with rp and ra
ServersResolves(PR, AR) ==
    \E f \in InFlight("fetchServers"), rp \in PR, ra \in AR :
        LET s0 == Outcome(Settling(f, "serversResolved"), rp, ra)
        IN  Step(s0, Render(s0, fetchServersResolved(s0, f, rp, ra)))

\* a fetchServers in flight settles: Promise.all rejected, both requests
\* having thrown
ServersRejects(OL, NTE) ==
    \E f \in InFlight("fetchServers"), onLine \in OL, nte \in NTE :
        LET s0 == Failure(Outcome(Settling(f, "serversRejected"), Threw, Threw),
                          onLine, nte)
        IN  Step(s0, Render(s0, fetchServersRejected(s0, f, onLine, nte)))

\* the outcomes of a reconciliation of which exactly one request threw
PartlyResolved(PR, AR) ==
    {<<rp, Threw>> : rp \in PR} \cup {<<Threw, ra>> : ra \in AR}

\* a fetchInitialData in flight settles: Promise.all rejected, one request
\* having resolved
InitialRejectsPartly(PR, AR, OL, NTE) ==
    \E f \in InFlight("fetchInitialData"), o \in PartlyResolved(PR, AR),
       onLine \in OL, nte \in NTE :
        LET s0 == Failure(Outcome(Settling(f, "initialRejected"), o[1], o[2]),
                          onLine, nte)
        IN  Step(s0, Render(s0, fetchInitialDataRejected(s0, f, onLine)))

\* a fetchServers in flight settles: Promise.all rejected, one request having
\* resolved
ServersRejectsPartly(PR, AR, OL, NTE) ==
    \E f \in InFlight("fetchServers"), o \in PartlyResolved(PR, AR),
       onLine \in OL, nte \in NTE :
        LET s0 == Failure(Outcome(Settling(f, "serversRejected"), o[1], o[2]),
                          onLine, nte)
        IN  Step(s0, Render(s0, fetchServersRejected(s0, f, onLine, nte)))

TriggerRefresh ==
    /\ refreshKey < MaxKey
    /\ LET s0 == Begin(Cur, "triggerRefresh")
       IN  Step(s0, Render(s0, triggerRefresh(s0)))

RefreshIfNeeded ==
    /\ refreshKey < MaxKey
    /\ LET s0 == Begin(Cur, "refreshIfNeeded")
           s1 == Render(s0, refreshIfNeeded(s0))
       IN  Step(s0, IF s1.ev.issued > 0
                    THEN [s1 EXCEPT !.lastRefreshCall = s1.now]
                    ELSE s1)

HandleServerAdd ==
    /\ refreshKey < MaxKey
    /\ LET s0 == Begin(Cur, "handleServerAdd")
       IN  Step(s0, Render(s0, handleServerAdd(s0)))

\* a resource operation is called: its request is sent and the handler waits
CallOperation ==
    \E op \in Operations :
        /\ BagCardinality(pending) < MaxPending
        /\ LET s0 == Begin(Cur, "call")
               c == [op |-> op, isInitialLoading |-> s0.isInitialLoading]
           IN  Step(s0, [s0 EXCEPT !.pending = @ (+) SetToBag({c})])

\* the calls of op that wait for their request
Pending(op) == {c \in BagToSet(pending) : c.op = op}

\* the state in which the request of the call c settles with r
Resuming(c, r) ==
    [Begin(Cur, c.op) EXCEPT !.pending = @ (-) SetToBag({c}), !.ev.response = r]

\* the request of a handleServerEdit settles
EditSettles(RS) ==
    \E c \in Pending("handleServerEdit"), r \in RS :
        LET s0 == Resuming(c, r)
        IN  Step(s0, Render(s0, handleServerEdit(s0, c, r)))

\* the request of a handleServerRemove settles
RemoveSettles(RS) ==
    \E c \in Pending("handleServerRemove"), r \in RS :
        /\ refreshKey < MaxKey
        /\ LET s0 == Resuming(c, r)
           IN  Step(s0, Render(s0, handleServerRemove(s0, c, r)))

\* the request of a handleServerToggle settles
ToggleSettles(RS) ==
    \E c \in Pending("handleServerToggle"), r \in RS :
        /\ refreshKey < MaxKey
        /\ LET s0 == Resuming(c, r)
           IN  Step(s0, Render(s0, handleServerToggle(s0, c, r)))

\* the request of a handleServerReload settles
ReloadSettles(RS) ==
    \E c \in Pending("handleServerReload"), r \in RS :
        /\ refreshKey < MaxKey
        /\ LET s0 == Resuming(c, r)
           IN  Step(s0, Render(s0, handleServerReload(s0, c, r)))

\* the page control calls handlePageChange(page)
HandlePageChange ==
    \E page \in Pages :
        LET s0 == [Begin(Cur, "handlePageChange") EXCEPT !.ev.arg = page]
        IN  Step(s0, Render(s0, handlePageChange(s0, page)))

\* the page-size control calls handleServersPerPageChange(limit)
HandleServersPerPageChange(LS) ==
    \E limit \in LS :
        LET s0 == [Begin(Cur, "handleServersPerPageChange") EXCEPT !.ev.arg = limit]
        IN  Step(s0, Render(s0, handleServersPerPageChange(s0, limit)))

\* the page is loaded again in the same tab: the requests of the old provider
\* are gone, the new provider mounts over the store
Remount ==
    /\ inflight = EmptyBag
    /\ pending = EmptyBag
    /\ LET s0 == FirstRenderAgain(auth, sessionStorage, now)
           p  == pollingEffect(s0)
       IN  Step(s0, Render(p, authEffect(p)))

\* the activity page mounts: the first render reads the page size
ActivityPageMounts ==
    /\ itemsPerPage = <<>>
    /\ itemsPerPage' = <<getLocalNumber(localStorage, DefaultItemsPerPage)>>
    /\ localStorage' = localStorage
    /\ Assign(Begin(Cur, "ActivityPage"))

\* the activity page unmounts
ActivityPageUnmounts ==
    /\ itemsPerPage # <<>>
    /\ itemsPerPage' = <<>>
    /\ localStorage' = localStorage
    /\ Assign(Begin(Cur, "ActivityPage unmount"))

\* onChange of the activity page's page-size select
ItemsPerPageChange ==
    \E nextValue \in ItemsPerPageOptions :
        /\ itemsPerPage # <<>>
        /\ localStorage' = setLocalNumber(localStorage, nextValue)
        /\ itemsPerPage' = <<nextValue>>
        /\ Assign([Begin(Cur, "itemsPerPage onChange") EXCEPT !.ev.arg = nextValue])

\* the instants at which Date.now() is read
ClockStops ==
    {StartTime, StartTime + MIN_REFRESH_INTERVAL - 1,
     StartTime + MIN_REFRESH_INTERVAL}

AdvanceTime ==
    \E t \in ClockStops :
        /\ t > now
        /\ Commit([Begin(Cur, "advanceTime") EXCEPT !.now = t])

\* the engine: the gate, the timer, reconciliations settling with a well-formed
\* body or a failure, manual refresh and a successful add
Next ==
    \/ GateOn
    \/ GateOff
    \/ Tick
    \/ InitialResolves(WellFormedPag, WellFormedAll)
    \/ InitialRejects(BOOLEAN, {FALSE})
    \/ ServersResolves(WellFormedPag, WellFormedAll)
    \/ ServersRejects(BOOLEAN, BOOLEAN)
    \/ TriggerRefresh
    \/ HandleServerAdd

Spec == Init /\ [][Next]_vars

\* the engine with the clock and the debounced refresh, the backend answering
\* well-formed bodies or failing while the browser is online
NextClock ==
    \/ GateOn
    \/ GateOff
    \/ Tick
    \/ InitialResolves(WellFormedPag, WellFormedAll)
    \/ InitialRejects({TRUE}, {FALSE})
    \/ ServersResolves(WellFormedPag, WellFormedAll)
    \/ ServersRejects({TRUE}, {FALSE})
    \/ RefreshIfNeeded
    \/ AdvanceTime

SpecClock == Init /\ [][NextClock]_vars

\* while the session lasts the reconciliations settle in every way: every
\* shape of body, one request or both throwing, online or offline, any kind of
\* error
NextShapes ==
    \/ GateOn
    \/ Tick
    \/ InitialResolves(PagResponses, AllResponses)
    \/ InitialRejects(BOOLEAN, BOOLEAN)
    \/ InitialRejectsPartly(WellFormedPag, WellFormedAll, BOOLEAN, BOOLEAN)
    \/ ServersResolves(PagResponses, AllResponses)
    \/ ServersRejects(BOOLEAN, BOOLEAN)
    \/ ServersRejectsPartly(WellFormedPag, WellFormedAll, BOOLEAN, BOOLEAN)

SpecShapes == Init /\ [][NextShapes]_vars

\* the engine with the page and page-size controls, while the session lasts
NextParams ==
    \/ GateOn
    \/ Tick
    \/ InitialResolves(WellFormedPag, WellFormedAll)
    \/ InitialRejects({TRUE}, {FALSE})
    \/ ServersResolves(WellFormedPag, WellFormedAll)
    \/ ServersRejects({TRUE}, {FALSE})
    \/ HandlePageChange
    \/ HandleServersPerPageChange(Limits)

SpecParams == Init /\ [][NextParams]_vars

\* the engine with the page and page-size controls, while the session lasts,
\* over a backend whose list has any of the sizes in Totals
NextPagination ==
    \/ GateOn
    \/ Tick
    \/ InitialResolves(ListBodies, WellFormedAll)
    \/ ServersResolves(ListBodies, WellFormedAll)
    \/ HandlePageChange
    \/ HandleServersPerPageChange(Limits)

SpecPagination == Init /\ [][NextPagination]_vars

\* the page-size control called with any number, and the page loaded again
NextStorage ==
    \/ GateOn
    \/ Tick
    \/ InitialResolves(WellFormedPag, WellFormedAll)
    \/ ServersResolves(WellFormedPag, WellFormedAll)
    \/ HandleServersPerPageChange(LimitInputs)
    \/ Remount

SpecStorage == Init /\ [][NextStorage]_vars

\* the two page-size readers over stores that hold anything: the provider and
\* the activity page mount, change their page size and mount again
NextReaders ==
    \/ GateOn
    \/ HandleServersPerPageChange(LimitInputs)
    \/ Remount
    \/ ActivityPageMounts
    \/ ItemsPerPageChange
    \/ ActivityPageUnmounts

SpecReaders == InitReaders /\ [][NextReaders]_vars

\* the engine with the resource operations, while the session lasts and the
\* backend refuses every change
NextOperations ==
    \/ GateOn
    \/ Tick
    \/ InitialResolves(WellFormedPag, WellFormedAll)
    \/ InitialRejects({TRUE}, {FALSE})
    \/ ServersResolves(WellFormedPag, WellFormedAll)
    \/ ServersRejects({TRUE}, {FALSE})
    \/ CallOperation
    \/ EditSettles(EditResults)
    \/ RemoveSettles(FailedResults)
    \/ ToggleSettles(FailedResults)
    \/ ReloadSettles(FailedResults)

SpecOperations == Init /\ [][NextOperations]_vars

\* the engine with the resource operations, while the session lasts and the
\* backend answers every request and accepts every change
NextMutations ==
    \/ GateOn
    \/ Tick
    \/ InitialResolves(WellFormedPag, WellFormedAll)
    \/ ServersResolves(WellFormedPag, WellFormedAll)
    \/ HandleServerAdd
    \/ CallOperation
    \/ EditSettles(SucceededResults)
    \/ RemoveSettles(SucceededResults)
    \/ ToggleSettles(SucceededResults)
    \/ ReloadSettles(SucceededResults)

SpecMutations == Init /\ [][NextMutations]_vars

\* the engine with both manual refreshes and the clock, while the backend
\* answers every request
NextRefresh ==
    \/ GateOn
    \/ GateOff
    \/ Tick
    \/ InitialResolves(WellFormedPag, WellFormedAll)
    \/ ServersResolves(WellFormedPag, WellFormedAll)
    \/ TriggerRefresh
    \/ RefreshIfNeeded
    \/ AdvanceTime

SpecRefresh == Init /\ [][NextRefresh]_vars

\* a request in flight settles, one way or the other
InitialSettles ==
    \/ InitialResolves(WellFormedPag, WellFormedAll)
    \/ InitialRejects({TRUE}, {FALSE})

ServersSettles ==
    \/ ServersResolves(WellFormedPag, WellFormedAll)
    \/ ServersRejects({TRUE}, {FALSE})

\* the engine once the session has begun, with failures, successes, page
\* changes, additions and manual refreshes
NextLive ==
    \/ GateOn
    \/ Tick
    \/ InitialSettles
    \/ ServersSettles
    \/ HandlePageChange
    \/ HandleServerAdd
    \/ TriggerRefresh

\* the interval fires or a request in flight settles
EngineStep == Tick \/ InitialSettles \/ ServersSettles

\* an armed interval keeps firing and every request settles
SpecLive == Init /\ [][NextLive]_vars /\ WF_vars(EngineStep)

\* a request in flight fails
RequestFails ==
    \/ InitialRejects({TRUE}, {FALSE})
    \/ ServersRejects({TRUE}, {FALSE})

\* the backend is down for the reconciliations while the session lasts; pages
\* are changed and servers added
NextOutage ==
    \/ GateOn
    \/ Tick
    \/ RequestFails
    \/ HandlePageChange
    \/ HandleServerAdd

\* an armed interval keeps firing and every request fails in the end
SpecOutage ==
    Init /\ [][NextOutage]_vars /\ WF_vars(Tick) /\ WF_vars(RequestFails)

-----------------------------------------------------------------------------
(* Stale responses, the session gate, reconciliations in flight *)

SettleOps == {"initialResolved", "initialRejected", "serversResolved", "serversRejected"}

\* C1: the arrival (success or failure) of a response to a reconciliation
\* issued under an older generation than the current refreshKey changes none of
\* servers, allServers, pagination, error, fetchAttempts, the phase,
\* lastFetchTimeRef and the armed timer.
C1_StaleResponseDiscarded ==
    [][(ev'.op \in SettleOps /\ ev'.stale)
        => UNCHANGED <<servers, allServers, pagination, error, fetchAttempts,
                       isInitialLoading, lastFetchTimeRef, intervalRef>>]_vars

\* C2: while the session gate is off no timer is armed and no reconciliation
\* is issued, whatever settles after the gate went off.
C2_QuietWhileGateOff ==
    [][~auth' => (intervalRef' = Null /\ ev'.issued = 0)]_vars

\* C3: right after the gate-off handler ran, servers = [], allServers = [],
\* pagination = null and error = null.
C3_GateOffClearsSink ==
    [][ev'.op = "gateOff"
        => (servers' = <<>> /\ allServers' = <<>> /\ pagination' = Null
            /\ error' = NoError)]_vars

\* the number of unsettled reconciliations issued under the current generation
InFlightOfCurrentGeneration ==
    BagCardinality([f \in {g \in BagToSet(inflight) : g.gen = refreshKey}
                       |-> inflight[f]])

\* C4: in every reachable state at most one unsettled reconciliation was
\* issued under the current generation.
C4_OneInFlightPerGeneration == InFlightOfCurrentGeneration <= 1

-----------------------------------------------------------------------------
(* Startup attempts *)

\* C5, as stated: for every a < maxAttempts a reconciliation failing in
\* Startup(a) leaves the engine in Startup(a+1), attemptsRef and fetchAttempts
\* both a+1, and the generation unchanged.
C5_FailureCountsAttempt ==
    [][(ev'.op \in {"initialRejected", "serversRejected"} /\ auth
        /\ isInitialLoading /\ attemptsRef < maxAttempts)
        => (/\ isInitialLoading'
            /\ attemptsRef' = attemptsRef + 1
            /\ fetchAttempts' = attemptsRef + 1
            /\ refreshKey' = refreshKey)]_vars

\* C5, amended: a failing fetchInitialData in Startup(a), a < maxAttempts,
\* leaves the generation unchanged; when a + 1 < maxAttempts the engine is in
\* Startup(a+1) with attemptsRef = fetchAttempts = a+1, and when
\* a + 1 = maxAttempts the max-attempts branch runs and the phase is Normal.
C5_FailureCountsAttemptBelowMax ==
    [][(ev'.op = "initialRejected" /\ auth /\ isInitialLoading
        /\ attemptsRef < maxAttempts)
        => (/\ refreshKey' = refreshKey
            /\ IF attemptsRef + 1 < maxAttempts
               THEN /\ isInitialLoading'
                    /\ ~ev'.forced
                    /\ attemptsRef' = attemptsRef + 1
                    /\ fetchAttempts' = attemptsRef + 1
               ELSE /\ ~isInitialLoading'
                    /\ ev'.forced)]_vars

\* a failure has just moved the engine to Startup(maxAttempts - 1)
C5_Witness ==
    /\ ev.op = "initialRejected"
    /\ auth
    /\ isInitialLoading
    /\ attemptsRef = maxAttempts - 1
    /\ fetchAttempts = maxAttempts - 1

\* C6: the max-attempts branch runs as the Startup -> Normal transition, once
\* (never again for a startup fetch that fails after the phase has left
\* Startup), and the phase then leaves Normal only by a triggerRefresh or a
\* gate activation.
C6_ForcedSwitchOnce ==
    [][/\ ev'.forced => isInitialLoading
       /\ (~isInitialLoading /\ isInitialLoading')
            => ev'.op \in {"triggerRefresh", "refreshIfNeeded", "gateOn"}]_vars

\* C7: when the failure that reaches maxAttempts is classified StartupFailure
\* with the gate on, the engine is left in Normal with fetchAttempts =
\* maxAttempts, that error, and the Normal-interval timer armed.
C7_SixtyFailuresSettle ==
    [][(ev'.forced /\ auth /\ isInitialLoading /\ error' = "errors.initialStartup")
        => (/\ ~isInitialLoading'
            /\ fetchAttempts' = maxAttempts
            /\ intervalRef' # Null
            /\ intervalRef'.interval = normalPollingInterval)]_vars

-----------------------------------------------------------------------------
(* Manual refresh *)

\* C8: triggerRefresh() called with the gate on, in Startup or in Normal,
\* increments refreshKey by exactly 1 and leaves attemptsRef and fetchAttempts
\* at 0 once the restart is set up.
C8_TriggerRefreshBumpsAndResets ==
    [][(ev'.op = "triggerRefresh" /\ auth)
        => (/\ refreshKey' = refreshKey + 1
            /\ attemptsRef' = 0
            /\ fetchAttempts' = 0)]_vars

\* triggerRefresh() has just run in Normal phase with the gate on
C8_Witness ==
    /\ ev.op = "triggerRefresh"
    /\ auth
    /\ ~isInitialLoading
    /\ refreshKey >= 2

\* C9: triggerRefresh() called with the gate on leaves the engine in a fresh
\* Startup episode: phase Startup, attempt 0, one reconciliation issued by
\* fetchInitialData and the Startup-interval timer armed.
C9_TriggerRefreshRestartsStartup ==
    [][(ev'.op = "triggerRefresh" /\ auth)
        => (/\ isInitialLoading'
            /\ attemptsRef' = 0
            /\ ev'.issued = 1
            /\ \E f \in BagToSet(inflight') :
                  f.fn = "fetchInitialData" /\ f.gen = refreshKey'
            /\ intervalRef' # Null
            /\ intervalRef'.fn = "fetchInitialData"
            /\ intervalRef'.interval = startupPollingInterval)]_vars

\* C10: with the gate on refreshIfNeeded() issues a reconciliation iff
\* now - lastFetchTimeRef >= MIN_REFRESH_INTERVAL, and a call made less than
\* MIN_REFRESH_INTERVAL after a call that issued one issues none.
C10_RefreshIfNeededDebounced ==
    [][(ev'.op = "refreshIfNeeded" /\ auth)
        => (/\ (ev'.issued > 0) <=> (now - lastFetchTimeRef >= MIN_REFRESH_INTERVAL)
            /\ (lastRefreshCall >= 0 /\ now - lastRefreshCall < MIN_REFRESH_INTERVAL)
                  => ev'.issued = 0)]_vars

\* C11: with the gate on, when exactly one of the two requests of a
\* reconciliation fails, the cycle
\* counts as a failure (in Startup below the bound the attempt count grows by
\* one and the phase stays Startup, an error is set, the time of the last
\* success is kept) and the request that resolved is still written: servers
\* and pagination if the paginated request resolved, allServers if the
\* full-list request resolved.
C11_PartialSuccessWritesResolvedHalf ==
    [][(/\ auth
        /\ ev'.op \in {"initialRejected", "serversRejected"}
        /\ (ev'.pag = Threw) # (ev'.all = Threw))
       => /\ error' # NoError
          /\ lastFetchTimeRef' = lastFetchTimeRef
          /\ (ev'.op = "serversRejected" \/ attemptsRef + 1 < maxAttempts)
             => isInitialLoading' = isInitialLoading
          /\ (/\ ev'.op = "initialRejected"
              /\ isInitialLoading
              /\ attemptsRef + 1 < maxAttempts)
             => attemptsRef' = attemptsRef + 1
          /\ ev'.pag # Threw
             => /\ servers' = ev'.pag.data
                /\ pagination' = ev'.pag.pagination
          /\ ev'.all # Threw => allServers' = ev'.all.data]_vars

\* C12: with the gate on, a paginated response that resolves but is malformed
\* (success = false, non-array data, a null body) is a failed reconciliation:
\* servers becomes empty and pagination null, the time of the last success is
\* kept, an error that is set stays set, and in Startup below the bound the
\* attempt count grows by one and the phase stays Startup.
C12_MalformedPaginatedIsFailure ==
    [][(/\ auth
        /\ ev'.op \in {"initialResolved", "serversResolved"}
        /\ ev'.pag \in Malformed)
       => /\ servers' = <<>>
          /\ pagination' = Null
          /\ lastFetchTimeRef' = lastFetchTimeRef
          /\ error # NoError => error' # NoError
          /\ (/\ ev'.op = "initialResolved"
              /\ isInitialLoading
              /\ attemptsRef + 1 < maxAttempts)
             => /\ isInitialLoading'
                /\ attemptsRef' = attemptsRef + 1]_vars

\* C13: a resolved reconciliation writes, in the Startup path and in the Normal
\* path alike, servers = D and pagination = P (null when absent) for a
\* paginated success envelope with data D, servers = A and pagination = null
\* for a bare array A, and allServers = the data of the full-list envelope or
\* the full-list bare array.
C13_ResponseNormalized ==
    [][ev'.op \in {"initialResolved", "serversResolved"}
       => /\ (ev'.pag.shape = "envelope" /\ ev'.pag.success /\ ev'.pag.dataIsArray)
             => /\ servers' = ev'.pag.data
                /\ pagination' = ev'.pag.pagination
          /\ ev'.pag.shape = "array"
             => /\ servers' = ev'.pag.data
                /\ pagination' = Null
          /\ (ev'.all.shape = "envelope" /\ ev'.all.success /\ ev'.all.dataIsArray)
             => allServers' = ev'.all.data
          /\ ev'.all.shape = "array" => allServers' = ev'.all.data]_vars

\* a fetchServers has resolved with two bare arrays and they are in the sink
C13_Witness ==
    /\ ev.op = "serversResolved"
    /\ ev.pag = BareArray(R2)
    /\ ev.all = BareArray(R1)
    /\ servers = R2
    /\ pagination = Null
    /\ allServers = R1

\* C14: with the gate on a failed reconciliation sets exactly one error, by the
\* same priority in both paths: errors.network when navigator.onLine is false;
\* otherwise errors.serverConnection when a TypeError with a network message
\* was thrown, from fetchInitialData as well as from fetchServers; otherwise
\* errors.initialStartup from fetchInitialData and errors.serverFetch from
\* fetchServers.
C14_ClassificationPriority ==
    [][(auth /\ ev'.op \in {"initialRejected", "serversRejected"})
       => error' = IF ~ev'.onLine THEN "errors.network"
                   ELSE IF ev'.networkTypeError THEN "errors.serverConnection"
                   ELSE IF ev'.op = "initialRejected" THEN "errors.initialStartup"
                   ELSE "errors.serverFetch"]_vars

\* C15: every activation of the gate starts a fresh Startup episode: the phase
\* is Startup, the attempt count is 0, the generation is greater than before,
\* and the first reconciliation is issued by the Startup path under the new
\* generation.
C15_GateOnStartsStartup ==
    [][ev'.op = "gateOn"
       => /\ isInitialLoading'
          /\ attemptsRef' = 0
          /\ fetchAttempts' = 0
          /\ refreshKey' > refreshKey
          /\ \E f \in BagToSet(inflight' (-) inflight) :
                 f.fn = "fetchInitialData" /\ f.gen = refreshKey']_vars

\* C16: with the gate on, a step that starts a Startup episode issues its first
\* reconciliation at once, and the step that takes the phase from Startup to
\* Normal (a Startup success or the forced switch) issues no reconciliation:
\* the next one is left to the first tick of the Normal-interval timer.
C16_NoReconciliationOnEnteringNormal ==
    [][/\ (auth' /\ isInitialLoading' /\ ev'.op = "triggerRefresh")
          => ev'.issued >= 1
       /\ (/\ auth
           /\ isInitialLoading
           /\ ~isInitialLoading'
           /\ ev'.op \in {"initialResolved", "initialRejected"})
          => ev'.issued = 0]_vars

\* C17: handleServersPerPageChange(limit) sets serversPerPage = limit and
\* currentPage = 1, and handlePageChange(p) sets currentPage = p; when that
\* changes the page or the page size while the gate is on, the phase and the
\* generation stay as they are and exactly one reconciliation, carrying the new
\* page and the new page size, is issued at once by the path of the current
\* phase.
C17_ParamChangeKeepsPhase ==
    [][/\ ev'.op = "handleServersPerPageChange"
          => serversPerPage' = ev'.arg /\ currentPage' = 1
       /\ ev'.op = "handlePageChange" => currentPage' = ev'.arg
       /\ (/\ ev'.op \in {"handlePageChange", "handleServersPerPageChange"}
           /\ auth
           /\ <<currentPage', serversPerPage'>> # <<currentPage, serversPerPage>>)
          => /\ isInitialLoading' = isInitialLoading
             /\ refreshKey' = refreshKey
             /\ ev'.issued = 1
             /\ BagCardinality(inflight') = BagCardinality(inflight) + 1
             /\ \E f \in BagToSet(inflight' (-) inflight) :
                    /\ f.page = currentPage'
                    /\ f.limit = serversPerPage'
                    /\ f.gen = refreshKey
                    /\ f.fn = IF isInitialLoading THEN "fetchInitialData"
                                                 ELSE "fetchServers"]_vars

\* in Startup the page size was changed on a later page: the page is back to 1
\* and a fetchInitialData for page 1 with the new size is in flight
C17_Witness ==
    /\ ev.op = "handleServersPerPageChange"
    /\ auth
    /\ isInitialLoading
    /\ ev.arg = 10
    /\ serversPerPage = 10
    /\ currentPage = 1
    /\ ev.issued = 1
    /\ \E f \in BagToSet(inflight) :
           f.fn = "fetchInitialData" /\ f.page = 2 /\ f.limit = DefaultServersPerPage
    /\ \E f \in BagToSet(inflight) :
           f.fn = "fetchInitialData" /\ f.page = 1 /\ f.limit = 10

\* C18: with the gate on in Normal phase, after a reconciliation settles, with
\* success or with failure, the phase is still Normal and the Normal-interval
\* timer is armed; a fetchServers that failed has set an error and changed
\* nothing else.
C18_NormalOutcomeKeepsPhaseAndTimer ==
    [][(auth /\ ~isInitialLoading /\ ev'.op \in SettleOps)
       => /\ ~isInitialLoading'
          /\ intervalRef' # Null
          /\ intervalRef'.fn = "fetchServers"
          /\ intervalRef'.interval = normalPollingInterval
          /\ ev'.op = "serversRejected"
             => /\ error' # NoError
                /\ UNCHANGED <<servers, allServers, pagination, refreshKey,
                               fetchAttempts, attemptsRef, intervalRef,
                               lastFetchTimeRef, currentPage, serversPerPage>>]_vars

\* in Normal phase a fetchServers has failed after an earlier success: the
\* sink keeps the servers, the timer is armed
C18_Witness ==
    /\ ev.op = "serversRejected"
    /\ auth
    /\ ~isInitialLoading
    /\ error = "errors.serverFetch"
    /\ servers = R1
    /\ intervalRef # Null
    /\ intervalRef.interval = normalPollingInterval

\* C19: with the gate on, when the first reconciliation after the gate turned on
\* resolves with a success envelope {data: D, pagination: P}, then servers = D,
\* pagination = P, the phase is Normal and fetchAttempts = 0; and every
\* fetchInitialData that resolves in Startup moves the phase to Normal and
\* leaves the Normal-interval timer armed.
C19_StartupSuccessEntersNormal ==
    [][/\ (/\ ev.op \in {"mount", "gateOn"}
           /\ auth
           /\ ev'.op \in {"initialResolved", "serversResolved"}
           /\ ev'.pag.shape = "envelope" /\ ev'.pag.success /\ ev'.pag.dataIsArray)
          => /\ servers' = ev'.pag.data
             /\ pagination' = ev'.pag.pagination
             /\ ~isInitialLoading'
             /\ fetchAttempts' = 0
       /\ (auth /\ isInitialLoading /\ ev'.op = "initialResolved")
          => /\ ~isInitialLoading'
             /\ intervalRef' # Null
             /\ intervalRef'.interval = normalPollingInterval]_vars

\* the gate is on and Startup has ended by a fetchInitialData that resolved
\* with [r1] and its pagination
C19_Witness ==
    /\ ev.op = "initialResolved"
    /\ auth
    /\ ~isInitialLoading
    /\ servers = R1
    /\ pagination = P1
    /\ fetchAttempts = 0
    /\ intervalRef # Null
    /\ intervalRef.interval = normalPollingInterval

\* C20: a resource operation whose request fails (remove, toggle, reload, edit:
\* the request throws, resolves with null or with success = false; edit also:
\* with no data) returns false, null for edit, sets an error, and leaves the
\* phase, the attempt count, the generation, the armed timer, servers,
\* allServers and pagination as they were, and issues no reconciliation.
C20_FailedOperationLeavesEngine ==
    [][(/\ ev'.op \in Operations
        /\ \/ ev'.response.kind \in {"threw", "null"}
           \/ ~ev'.response.success
           \/ ev'.op = "handleServerEdit" /\ ~ev'.response.hasData)
       => /\ ev'.result = IF ev'.op = "handleServerEdit" THEN "null" ELSE "false"
          /\ error' # NoError
          /\ ev'.issued = 0
          /\ UNCHANGED <<isInitialLoading, attemptsRef, fetchAttempts, refreshKey,
                         intervalRef, servers, allServers, pagination, inflight,
                         currentPage, serversPerPage, lastFetchTimeRef>>]_vars

\* in Startup, after failed attempts and with the timer armed, a reload was
\* refused
C20_Witness ==
    /\ ev.op = "handleServerReload"
    /\ ev.response = Response(FALSE, FALSE, "refused")
    /\ ev.result = "false"
    /\ error = "server.reloadError"
    /\ auth
    /\ isInitialLoading
    /\ fetchAttempts > 0
    /\ intervalRef # Null

\* C21: when the request of a remove, a toggle or a reload resolves with
\* success = false, the error is the message of the response when it carries
\* one, and the default message of the operation only when it carries none.
C21_BackendMessageSurfaced ==
    [][(/\ ev'.op \in {"handleServerRemove", "handleServerToggle",
                       "handleServerReload"}
        /\ ev'.response.kind = "body"
        /\ ~ev'.response.success)
       => error' = IF ev'.response.message # "" THEN ev'.response.message
                   ELSE IF ev'.op = "handleServerRemove" THEN "server.deleteError"
                   ELSE IF ev'.op = "handleServerToggle" THEN "server.toggleError"
                   ELSE "server.reloadError"]_vars

C23_RefreshWhileStoppedIsNoOp ==
    [][(~auth /\ ev'.op \in {"triggerRefresh", "refreshIfNeeded"})
       => /\ ev'.issued = 0
          /\ intervalRef' \in {Null, intervalRef}
          /\ UNCHANGED <<isInitialLoading, attemptsRef, fetchAttempts, refreshKey,
                         servers, allServers, pagination, error>>]_vars

\* C23, amended: while the gate is off, triggerRefresh() and refreshIfNeeded()
\* issue no reconciliation, arm no timer, and leave the phase, the attempt
\* count and the sink as they were; the generation grows by one, except when
\* refreshIfNeeded() is called less than MIN_REFRESH_INTERVAL after the last
\* fetch.
C23_RefreshWhileStoppedOnlyBumps ==
    [][(~auth /\ ev'.op \in {"triggerRefresh", "refreshIfNeeded"})
       => /\ ev'.issued = 0
          /\ intervalRef' \in {Null, intervalRef}
          /\ refreshKey' =
                 IF \/ ev'.op = "triggerRefresh"
                    \/ now - lastFetchTimeRef >= MIN_REFRESH_INTERVAL
                 THEN refreshKey + 1 ELSE refreshKey
          /\ UNCHANGED <<isInitialLoading, attemptsRef, fetchAttempts, servers,
                         allServers, pagination, error, inflight,
                         lastFetchTimeRef>>]_vars

\* the gate is off, the pagination of the last session is still in the sink,
\* and a manual refresh has raised the generation
C23_Witness ==
    /\ ~auth
    /\ ev.op \in {"triggerRefresh", "refreshIfNeeded"}
    /\ pagination = P1
    /\ refreshKey = 2
    /\ intervalRef = Null
    /\ ~isInitialLoading

\* C24: lastFetchTimeRef is set to the time of a reconciliation that succeeds
\* and changes on nothing else: a reconciliation of which a request threw, or
\* whose paginated body is malformed, leaves it as it was, and so does every
\* step that is not a reconciliation settling.
C24_LastSuccessOnlyOnSuccess ==
    [][/\ (/\ ev'.op \in {"initialResolved", "serversResolved"}
           /\ ev'.pag \notin Malformed
           /\ ev'.all \notin Malformed)
          => lastFetchTimeRef' = now
       /\ (/\ ev'.op \in {"initialResolved", "serversResolved"}
           /\ ev'.pag \in Malformed)
          => lastFetchTimeRef' = lastFetchTimeRef
       /\ ev'.op \notin {"initialResolved", "serversResolved"}
          => lastFetchTimeRef' = lastFetchTimeRef]_vars

\* C25: in every behaviour in which the gate stays on from some point onward,
\* reconciliations are issued again and again, whatever failures, successes,
\* page changes, additions and manual refreshes occur.
C25_NeverHalts == <>[]auth => []<>(ev.issued > 0)

\* in Normal phase, with an error in the sink, the interval has fired and
\* issued a reconciliation
C25_Witness ==
    /\ auth
    /\ ~isInitialLoading
    /\ error # NoError
    /\ ev.op = "tick"
    /\ ev.issued = 1

\* C26: when the gate stays on and every request fails, the engine reaches
\* Normal phase for good, with the Normal-interval timer armed, also when pages
\* are changed or servers are added during Startup.
C26_StartupEnds ==
    <>[](/\ ~isInitialLoading
         /\ auth => /\ intervalRef # Null
                     /\ intervalRef.interval = normalPollingInterval)

\* C27: a timer armed while the gate is on has the Startup interval of 3000 ms in
\* Startup phase and the Normal interval of 10000 ms in Normal phase, it calls
\* the reconciliation of its phase, and Startup gives up at 60 attempts.
C27_IntervalOfPhase ==
    /\ startupPollingInterval = 3000
    /\ normalPollingInterval = 10000
    /\ maxAttempts = 60
    /\ intervalRef # Null =>
           intervalRef.interval = IF intervalRef.fn = "fetchInitialData"
                                  THEN startupPollingInterval
                                  ELSE normalPollingInterval
    /\ auth /\ intervalRef # Null =>
           intervalRef.interval = IF isInitialLoading
                                  THEN startupPollingInterval
                                  ELSE normalPollingInterval
    /\ isInitialLoading => attemptsRef < maxAttempts
    /\ ev.forced => ev.op = "initialRejected" /\ ~isInitialLoading

\* the Startup timer is armed after 59 failed attempts
C27_Witness ==
    /\ auth
    /\ isInitialLoading
    /\ attemptsRef = maxAttempts - 1
    /\ intervalRef # Null
    /\ intervalRef.interval = startupPollingInterval

\* C28: refreshKey never decreases; a gate activation raises it by exactly one,
\* and so does every call of triggerRefresh, made directly, by refreshIfNeeded
\* past the debounce, or by a successful reload.
C28_GenerationGrows ==
    [][/\ refreshKey' >= refreshKey
       /\ ev'.op \in {"gateOn", "triggerRefresh"} => refreshKey' = refreshKey + 1
       /\ (/\ ev'.op = "refreshIfNeeded"
           /\ now - lastFetchTimeRef >= MIN_REFRESH_INTERVAL)
          => refreshKey' = refreshKey + 1
       /\ ev'.op = "handleServerReload" /\ ev'.result = "true"
          => refreshKey' = refreshKey + 1]_vars

\* triggerRefresh has raised the generation to 3 in Normal phase
C28_Witness ==
    /\ auth
    /\ ~isInitialLoading
    /\ ev.op = "triggerRefresh"
    /\ refreshKey = 3

C30_PageSizeRoundTrips ==
    [][/\ ev'.op = "handleServersPerPageChange" =>
              /\ IsFinite(ev'.arg) /\ ev'.arg > 0 =>
                     getSessionNumber(sessionStorage', DefaultServersPerPage)
                         = ev'.arg
              /\ ~IsFinite(ev'.arg) => sessionStorage' = sessionStorage
       /\ ev'.op # "handleServersPerPageChange" => sessionStorage' = sessionStorage
       /\ ev'.op = "remount" =>
              serversPerPage' =
                  getSessionNumber(sessionStorage, DefaultServersPerPage)]_vars

\* the page size 10 is in the store and the control has just been called with
\* NaN: the store still returns 10
C30_Witness ==
    /\ ev.op = "handleServersPerPageChange"
    /\ ev.arg = NaN
    /\ serversPerPage = NaN
    /\ sessionStorage = <<"10">>
    /\ getSessionNumber(sessionStorage, DefaultServersPerPage) = 10

\* C31: handleServerEdit returns {name, status, tools, config} of the data when
\* the backend answers success with data, with tools the empty list when the
\* data has none, and null otherwise; either way it issues no reconciliation and
\* leaves the generation, the phase, the attempt count and the timer.
C31_EditReturnsDetail ==
    [][ev'.op = "handleServerEdit"
       => /\ IF /\ ev'.response.kind = "body"
                /\ ev'.response.success
                /\ ev'.response.hasData
             THEN /\ ev'.result = "detail"
                  /\ ev'.detail =
                         [name |-> ev'.response.data.name,
                          status |-> ev'.response.data.status,
                          tools |-> IF ev'.response.data.tools = Null
                                    THEN Array(<<>>)
                                    ELSE ev'.response.data.tools,
                          config |-> ev'.response.data.config]
             ELSE ev'.result = "null" /\ ev'.detail = Null
          /\ ev'.issued = 0
          /\ UNCHANGED <<refreshKey, isInitialLoading, attemptsRef, fetchAttempts,
                         intervalRef, inflight>>]_vars

\* in Startup, after a failed attempt and with the timer armed, an edit got
\* data without tools and returned the detail with an empty tool list
C31_Witness ==
    /\ ev.op = "handleServerEdit"
    /\ ev.response = DataResponse(ServerData(Null))
    /\ ev.result = "detail"
    /\ ev.detail.tools = Array(<<>>)
    /\ auth
    /\ isInitialLoading
    /\ fetchAttempts > 0
    /\ intervalRef # Null

\* C32: the attempt counts stay within the Startup limit: attemptsRef and
\* fetchAttempts are between 0 and maxAttempts in every reachable state.
C32_AttemptsBounded ==
    /\ attemptsRef \in 0..maxAttempts
    /\ fetchAttempts \in 0..maxAttempts

\* C33: the interval timers that were set and not cleared are at most one, and
\* that one is the timer held in intervalRef.
C33_OneTimer ==
    /\ timers.lost = EmptyBag
    /\ timers.held = IF intervalRef = Null THEN EmptyBag
                      ELSE SetToBag({intervalRef})

\* the Normal timer replaced the Startup timer after the first success, then a
\* manual refresh replaced it again
C33_Witness ==
    /\ auth
    /\ ~isInitialLoading
    /\ ev.op = "triggerRefresh"
    /\ refreshKey = 2
    /\ timers.held (+) timers.lost =
           SetToBag({Timer("fetchServers", normalPollingInterval,
                           currentPage, serversPerPage)})

\* C34: a reconciliation in which a request throws leaves servers, allServers,
\* pagination and the time of the last success as they were and sets the error,
\* in Startup and in Normal phase, also when the other request resolved; on the
\* Normal path it leaves the attempt count and the phase too.
C34_FailureKeepsSink ==
    [][ev'.op \in {"initialRejected", "serversRejected"}
       => /\ UNCHANGED <<servers, allServers, pagination, lastFetchTimeRef>>
          /\ error' # NoError
          /\ ev'.op = "serversRejected"
             => UNCHANGED <<attemptsRef, fetchAttempts, isInitialLoading>>]_vars

\* in Normal phase the sink holds the last success; the paginated request of the
\* next reconciliation resolved with other servers and the full-list request
\* threw
C34_Witness ==
    /\ auth
    /\ ~isInitialLoading
    /\ ev.op = "serversRejected"
    /\ ev.pag = Envelope(TRUE, TRUE, R1, P1)
    /\ ev.all = Threw
    /\ servers = R2
    /\ pagination = Null
    /\ error # NoError

\* C35: when a reconciliation whose requests resolved settles and leaves no
\* other in flight, it was made with the current page and page size: a response
\* to a request made with the old parameters does not arrive last and overwrite
\* the response for the new ones.
C35_NoStaleParameterWrite ==
    [][(/\ auth
        /\ ev'.op \in {"initialResolved", "serversResolved"}
        /\ inflight' = EmptyBag)
       => /\ ev'.request.page = currentPage
          /\ ev'.request.limit = serversPerPage]_vars

\* C36: right after a reconciliation whose two requests resolved settles, on the
\* Startup path or on the Normal path, the error is null.
C36_SuccessClearsError ==
    [][(auth /\ ev'.op \in {"initialResolved", "serversResolved"})
       => error' = NoError]_vars

\* C37: while the gate is on and the phase is Normal, no reconciliation that
\* settles raises the attempt counts or sets the error to the Startup failure
\* message, also when it is a fetchInitialData issued before the phase changed.
C37_NormalKeepsAttempts ==
    [][(/\ auth
        /\ ~isInitialLoading
        /\ ev'.op \in {"initialResolved", "initialRejected",
                        "serversResolved", "serversRejected"})
       => /\ fetchAttempts' <= fetchAttempts
          /\ attemptsRef' <= attemptsRef
          /\ error' = "errors.initialStartup" => error = "errors.initialStartup"]_vars

C39_ReadersTotal ==
    LET Usable == {<<"5", 5>>, <<"10", 10>>, <<"1e1", 10>>, <<"20", 20>>,
                   <<"50", 50>>, <<"100", 100>>}
        Claimed(store, fallback) ==
            IF store # NoItem /\ \E u \in Usable : u[1] = store[1]
            THEN (CHOOSE u \in Usable : u[1] = store[1])[2]
            ELSE fallback
        Sound(value, fallback) ==
            value = fallback \/ (value \notin {NaN, Infinity} /\ value > 0)
    IN  /\ \A fallback \in Fallbacks :
              /\ getSessionNumber(sessionStorage, fallback)
                     = Claimed(sessionStorage, fallback)
              /\ getLocalNumber(localStorage, fallback)
                     = Claimed(localStorage, fallback)
              /\ Sound(getSessionNumber(sessionStorage, fallback), fallback)
              /\ Sound(getLocalNumber(localStorage, fallback), fallback)
        /\ ev.op \in {"mount", "remount"}
              => serversPerPage = Claimed(sessionStorage, DefaultServersPerPage)
        /\ ev.op = "ActivityPage"
              => itemsPerPage = <<Claimed(localStorage, DefaultItemsPerPage)>>

\* the provider mounted again over a store holding "0" and took the fallback,
\* and the activity page mounted over a store holding "Infinity" and took its
C39_Witness ==
    /\ ev.op = "ActivityPage"
    /\ sessionStorage = <<"0">>
    /\ serversPerPage = DefaultServersPerPage
    /\ localStorage = <<"Infinity">>
    /\ itemsPerPage = <<DefaultItemsPerPage>>

=============================================================================
